---- MODULE Spec2Model ----
(***************************************************************************)
(* Model of src/visualization.py: a one-shot script that configures a     *)
(* font, seeds numpy's global generator, builds the sample datasets, draws *)
(* six panels on a 2x3 GridSpec and exports one PNG.                       *)
(*                                                                         *)
(* The script is one forward pass; every action below is one statement (or *)
(* one block of statements on the same object).  Runs copies of the script *)
(* are executed side by side: all copies standing at the same statement    *)
(* take it together.  The copies differ only in their environment (is the  *)
(* font file on disk, what entropy the generator holds before it is        *)
(* seeded, does the file write succeed).                                   *)
(*                                                                         *)
(* Numbers: Python floats are kept as scaled integers.  ad_spend is in     *)
(* tenths, sales, house prices and correlations in hundredths, pie         *)
(* percentages in tenths of a percent.  The source's Chinese string        *)
(* literals are written as ASCII glosses.                                  *)
(***************************************************************************)
EXTENDS Integers, Sequences, FiniteSets, TLC

VARIABLES npgen, fontOnDisk, pc, rng, drawLog, py, writes, reads, rc, fig, draw, out

vars == <<npgen, fontOnDisk, pc, rng, drawLog, py, writes, reads, rc, fig, draw, out>>

----------------------------------------------------------------------------
(* Bounds of the model *)

\* copies of the script run side by side
NumRuns == 2
\* generator states a copy may hold before np.random.seed is called
MaxEntropy == 2
\* members of the family of deterministic generators numpy may implement
MaxGen == 2

Runs == 1..NumRuns

----------------------------------------------------------------------------
(* Literals of the script *)

font_path == "/usr/share/fonts/truetype/wqy/wqy-microhei.ttc"

COLORS == <<"#4e79a7", "#f28e2b", "#e15759", "#76b7b2",
            "#59a14f", "#edc948", "#b07aa1", "#ff9da7">>

SEED == 42

months_lit == <<"Jan", "Feb", "Mar", "Apr", "May", "Jun",
                "Jul", "Aug", "Sep", "Oct", "Nov", "Dec">>
product_a_lit == <<120, 135, 148, 160, 175, 190, 210, 225, 198, 180, 165, 200>>
product_b_lit == <<90, 100, 115, 125, 140, 155, 145, 160, 170, 150, 135, 155>>
\* product_c with one month missing
product_c_lit_short == <<60, 75, 80, 95, 105, 110, 120, 130, 125, 115, 100>>
product_c_lit == <<60, 75, 80, 95, 105, 110, 120, 130, 125, 115, 100, 118>>

departments_lit == <<"R&D", "Marketing", "Sales", "Operations", "Support">>
q1_lit == <<320, 210, 450, 180, 120>>
q2_lit == <<350, 240, 480, 200, 135>>
q3_lit == <<310, 260, 510, 190, 140>>
q4_lit == <<380, 280, 530, 220, 150>>

\* sample size of the three scatter arrays
NScatter == 80
\* the list np.random.choice draws the category labels from
choice_list == <<"online", "offline", "social">>
\* the loop list with one name spelled differently from the choice list
loop_list_typo == <<"online", "offline", "social media">>
\* the list the scatter panel's for loop iterates over
loop_list == <<"online", "offline", "social">>

market_labels_lit == <<"Product A", "Product B", "Product C", "Product D", "Other">>
\* market shares that do not add up to 100
market_sizes_lit_off == <<35, 25, 20, 12, 9>>
market_sizes_lit == <<35, 25, 20, 12, 8>>

corr_labels_lit == <<"sales", "profit", "traffic", "ad spend", "satisfaction", "returns">>
\* the matrix with entry [6][1] mistyped
corr_data_lit_asym ==
    << <<100,  85,  72,  65,  45, -30>>,
       << 85, 100,  60,  50,  55, -40>>,
       << 72,  60, 100,  70,  35, -20>>,
       << 65,  50,  70, 100,  25, -15>>,
       << 45,  55,  35,  25, 100, -60>>,
       << 30, -40, -20, -15, -60, 100>> >>
corr_data_lit ==
    << <<100,  85,  72,  65,  45, -30>>,
       << 85, 100,  60,  50,  55, -40>>,
       << 72,  60, 100,  70,  35, -20>>,
       << 65,  50,  70, 100,  25, -15>>,
       << 45,  55,  35,  25, 100, -60>>,
       <<-30, -40, -20, -15, -60, 100>> >>

cities_lit == <<"Beijing", "Shanghai", "Guangzhou", "Shenzhen", "Hangzhou">>
city_base == <<65, 60, 35, 55, 40>>
city_spread == <<15, 12, 8, 13, 10>>
\* samples per city
NHouse == 200

\* gridspec.GridSpec(2, 3, ...)
GridRows == 2
GridCols == 3

output_path == "visualization_dashboard.png"

----------------------------------------------------------------------------
(* numpy's global generator: an unknown but fixed deterministic function   *)
(* of its state.  It is modelled as a linear congruential generator whose  *)
(* parameters g are fixed for a whole behaviour (npgen).                   *)

RngMod == 2^16

Gens == 1..MaxGen

GenNext(g, s) == ((8 * g + 5) * s + (2 * g + 1)) % RngMod

\* np.random.seed(n): the state becomes a function of n alone
SeedState(n) == n % RngMod

\* the states after 1..n draws from state s (the first half, then the rest)
RECURSIVE Stream(_, _, _)
Stream(g, s, n) ==
    IF n = 0 THEN <<>>
    ELSE IF n = 1 THEN <<GenNext(g, s)>>
    ELSE LET first == Stream(g, s, n \div 2)
         IN first \o Stream(g, first[Len(first)], n - n \div 2)

\* the raw byte a state yields
Raw(s) == s \div 256

\* np.random.uniform(low, high): tenths, in [10*low, 10*high)
Uniform(low, high, s) == 10 * low + (Raw(s) * 10 * (high - low)) \div 256

\* np.random.normal(loc, scale): hundredths
Normal(loc, scale, s) == 100 * loc + (scale * (Raw(s) - 128) * 300) \div 128

\* np.random.choice(list): one element of list
Choice(list, s) == list[1 + (Raw(s) * Len(list)) \div 256]

Last(seq) == seq[Len(seq)]

----------------------------------------------------------------------------
(* The script's statements, in program order *)

Program == <<"set_theme", "font", "rcparams", "seed",
             "monthly", "quarterly", "ad_spend", "sales", "categories",
             "market", "corr", "house_prices",
             "figure", "gridspec",
             "ax1_add", "ax1_plot", "ax1_fill", "ax1_decor",
             "ax2_add", "ax2_bar", "ax2_decor",
             "ax3_add", "ax3_scatter", "ax3_trend", "ax3_decor",
             "ax4_add", "ax4_pie", "ax4_decor",
             "ax5_add", "ax5_heatmap", "ax5_decor",
             "ax6_add", "ax6_boxplot", "ax6_decor",
             "savefig", "close", "print1", "print2">>

PosOf(L) == CHOOSE i \in 1..Len(Program) : Program[i] = L

\* the statement after L; the script ends after its last statement
NextPc(L) == IF PosOf(L) = Len(Program) THEN "done" ELSE Program[PosOf(L) + 1]

\* the copies standing at statement L
At(L) == {r \in Runs : pc[r] = L}

\* f with G(r) for every copy standing at L
Step(L, f, G(_)) == [r \in Runs |-> IF pc[r] = L THEN G(r) ELSE f[r]]

\* an uncaught exception ends the interpreter
Raise(r, exc) == [out[r] EXCEPT !.error = exc]

----------------------------------------------------------------------------
(* Python globals *)

DataNames == {"months", "product_a", "product_b", "product_c",
              "departments", "q1", "q2", "q3", "q4",
              "ad_spend", "sales", "categories",
              "market_labels", "market_sizes",
              "corr_labels", "corr_data",
              "cities", "house_prices"}

Names == DataNames \cup {"chinese_font"}

Panels == {"ax1", "ax2", "ax3", "ax4", "ax5", "ax6"}

\* names bound so far
Defined(r, n) == writes[r][n] > 0

\* an assignment statement binds each name of ns once more
Assign(r, ns) == [n \in Names |-> writes[r][n] + (IF n \in ns THEN 1 ELSE 0)]

\* who reads the datasets ns
Read(r, who, ns) == [n \in DataNames |-> reads[r][n] \cup (IF n \in ns THEN {who} ELSE {})]

Min(a, b) == IF a < b THEN a ELSE b

\* the trend line fitted against a monthly series instead of sales
Uses_cross(L) ==
    CASE L = "sales" -> {"ad_spend"}
      [] L = "house_prices" -> {"cities"}
      [] L = "ax1_plot" -> {"months", "product_a", "product_b", "product_c"}
      [] L = "ax1_fill" -> {"months", "product_a", "product_b"}
      [] L = "ax2_bar" -> {"departments", "q1", "q2", "q3", "q4"}
      [] L = "ax2_decor" -> {"departments"}
      [] L = "ax3_scatter" -> {"categories", "ad_spend", "sales"}
      [] L = "ax3_trend" -> {"ad_spend", "product_a"}
      [] L = "ax4_pie" -> {"market_sizes", "market_labels"}
      [] L = "ax5_heatmap" -> {"corr_data", "corr_labels"}
      [] L = "ax6_boxplot" -> {"house_prices", "cities"}
      [] OTHER -> {}

\* the datasets the statement at L references
Uses(L) ==
    CASE L = "sales" -> {"ad_spend"}
      [] L = "house_prices" -> {"cities"}
      [] L = "ax1_plot" -> {"months", "product_a", "product_b", "product_c"}
      [] L = "ax1_fill" -> {"months", "product_a", "product_b"}
      [] L = "ax2_bar" -> {"departments", "q1", "q2", "q3", "q4"}
      [] L = "ax2_decor" -> {"departments"}
      [] L = "ax3_scatter" -> {"categories", "ad_spend", "sales"}
      [] L = "ax3_trend" -> {"ad_spend", "sales"}
      [] L = "ax4_pie" -> {"market_sizes", "market_labels"}
      [] L = "ax5_heatmap" -> {"corr_data", "corr_labels"}
      [] L = "ax6_boxplot" -> {"house_prices", "cities"}
      [] OTHER -> {}

\* the stage a statement belongs to: a panel renderer, or something else
StageOf(L) ==
    CASE L \in {"ax1_add", "ax1_plot", "ax1_fill", "ax1_decor"} -> "ax1"
      [] L \in {"ax2_add", "ax2_bar", "ax2_decor"} -> "ax2"
      [] L \in {"ax3_add", "ax3_scatter", "ax3_trend", "ax3_decor"} -> "ax3"
      [] L \in {"ax4_add", "ax4_pie", "ax4_decor"} -> "ax4"
      [] L \in {"ax5_add", "ax5_heatmap", "ax5_decor"} -> "ax5"
      [] L \in {"ax6_add", "ax6_boxplot", "ax6_decor"} -> "ax6"
      [] L \in {"monthly", "quarterly", "ad_spend", "sales", "categories",
                "market", "corr", "house_prices"} -> "gen"
      [] OTHER -> "other"

\* the read log of copy r after the statement at L
ReadAt(r, L) == Read(r, StageOf(L), Uses(L))

----------------------------------------------------------------------------
Init ==
    /\ npgen \in Gens
    /\ fontOnDisk \in [Runs -> BOOLEAN]
    /\ pc = [r \in Runs |-> "set_theme"]
    /\ rng \in [Runs -> [state : 0..(MaxEntropy - 1), seeded : {FALSE}]]
    /\ drawLog = [r \in Runs |-> <<>>]
    /\ py = [r \in Runs |->
               [chinese_font |-> "",
                months |-> <<>>, product_a |-> <<>>, product_b |-> <<>>, product_c |-> <<>>,
                departments |-> <<>>, q1 |-> <<>>, q2 |-> <<>>, q3 |-> <<>>, q4 |-> <<>>,
                ad_spend |-> <<>>, sales |-> <<>>, categories |-> <<>>,
                market_labels |-> <<>>, market_sizes |-> <<>>,
                corr_labels |-> <<>>, corr_data |-> <<>>,
                cities |-> <<>>, house_prices |-> <<>>]]
    /\ writes = [r \in Runs |-> [n \in Names |-> 0]]
    /\ reads = [r \in Runs |-> [n \in DataNames |-> {}]]
    /\ rc = [r \in Runs |-> [style |-> "", font_sans |-> <<>>, fonts |-> {}]]
    /\ fig = [r \in Runs |-> [created |-> FALSE, suptitle |-> "", gs |-> <<0, 0>>,
                              axes |-> {}, closed |-> FALSE]]
    /\ draw = [r \in Runs |-> [line |-> <<>>, bars |-> <<>>, scatter |-> <<>>,
                               trend |-> <<>>, pie |-> <<>>, heat |-> <<>>,
                               box |-> <<>>, titles |-> <<>>]]
    /\ out = [r \in Runs |-> [files |-> <<>>, stdout |-> <<>>, error |-> ""]]

----------------------------------------------------------------------------
(* Style and font, lines 25-49 *)

\* sns.set_theme(style="whitegrid", font_scale=1.05)
SetTheme ==
    /\ At("set_theme") # {}
    /\ rc' = Step("set_theme", rc,
                  LAMBDA r : [rc[r] EXCEPT !.style = "whitegrid",
                                           !.font_sans = <<"Arial", "DejaVu Sans">>])
    /\ pc' = Step("set_theme", pc, LAMBDA r : NextPc("set_theme"))
    /\ UNCHANGED <<npgen, fontOnDisk, rng, drawLog, py, writes, reads, fig, draw, out>>

\* the else branch missing: the name is bound only when the file exists
FontBinds_present(exists) == IF exists THEN {"chinese_font"} ELSE {}

\* the names the if/else of lines 33-37 binds on each branch
FontBinds(exists) == {"chinese_font"}

\* if os.path.exists(font_path): addfont; chinese_font = family  else: generic
RegisterFont ==
    /\ At("font") # {}
    /\ rc' = Step("font", rc,
                  LAMBDA r : IF fontOnDisk[r]
                             THEN [rc[r] EXCEPT !.fonts = @ \cup {font_path}]
                             ELSE rc[r])
    /\ py' = Step("font", py,
                  LAMBDA r : IF "chinese_font" \in FontBinds(fontOnDisk[r])
                             THEN [py[r] EXCEPT !.chinese_font =
                                       IF fontOnDisk[r] THEN "WenQuanYi Micro Hei"
                                                        ELSE "sans-serif"]
                             ELSE py[r])
    /\ writes' = Step("font", writes, LAMBDA r : Assign(r, FontBinds(fontOnDisk[r])))
    /\ pc' = Step("font", pc, LAMBDA r : NextPc("font"))
    /\ UNCHANGED <<npgen, fontOnDisk, rng, drawLog, reads, fig, draw, out>>

\* plt.rcParams.update({...}): reads chinese_font; an unbound name is a NameError
RcParamsUpdate ==
    /\ At("rcparams") # {}
    /\ rc' = Step("rcparams", rc,
                  LAMBDA r : IF Defined(r, "chinese_font")
                             THEN [rc[r] EXCEPT !.font_sans =
                                      <<py[r].chinese_font, "DejaVu Sans", "Arial">>]
                             ELSE rc[r])
    /\ out' = Step("rcparams", out,
                   LAMBDA r : IF Defined(r, "chinese_font") THEN out[r]
                              ELSE Raise(r, "NameError"))
    /\ pc' = Step("rcparams", pc,
                  LAMBDA r : IF Defined(r, "chinese_font") THEN NextPc("rcparams")
                             ELSE "failed")
    /\ UNCHANGED <<npgen, fontOnDisk, rng, drawLog, py, writes, reads, fig, draw>>

----------------------------------------------------------------------------
(* Data generation, lines 55-100 *)

\* the seed call left out: the generator keeps its entropy
Seeded_noop(r) == rng[r]

\* the generator of copy r after np.random.seed(SEED)
Seeded(r) == [state |-> SeedState(SEED), seeded |-> TRUE]

\* np.random.seed(42)
Seed ==
    /\ At("seed") # {}
    /\ rng' = Step("seed", rng, LAMBDA r : Seeded(r))
    /\ pc' = Step("seed", pc, LAMBDA r : NextPc("seed"))
    /\ UNCHANGED <<npgen, fontOnDisk, drawLog, py, writes, reads, rc, fig, draw, out>>

\* months, product_a, product_b, product_c
Monthly ==
    /\ At("monthly") # {}
    /\ py' = Step("monthly", py,
                  LAMBDA r : [py[r] EXCEPT !.months = months_lit,
                                           !.product_a = product_a_lit,
                                           !.product_b = product_b_lit,
                                           !.product_c = product_c_lit])
    /\ writes' = Step("monthly", writes,
                      LAMBDA r : Assign(r, {"months", "product_a", "product_b", "product_c"}))
    /\ pc' = Step("monthly", pc, LAMBDA r : NextPc("monthly"))
    /\ UNCHANGED <<npgen, fontOnDisk, rng, drawLog, reads, rc, fig, draw, out>>

\* departments, q1..q4
Quarterly ==
    /\ At("quarterly") # {}
    /\ py' = Step("quarterly", py,
                  LAMBDA r : [py[r] EXCEPT !.departments = departments_lit,
                                           !.q1 = q1_lit, !.q2 = q2_lit,
                                           !.q3 = q3_lit, !.q4 = q4_lit])
    /\ writes' = Step("quarterly", writes,
                      LAMBDA r : Assign(r, {"departments", "q1", "q2", "q3", "q4"}))
    /\ pc' = Step("quarterly", pc, LAMBDA r : NextPc("quarterly"))
    /\ UNCHANGED <<npgen, fontOnDisk, rng, drawLog, reads, rc, fig, draw, out>>

\* one np.random call of n draws: the log entry and the generator afterwards
Logged(r, what) == Append(drawLog[r], [what |-> what, seeded |-> rng[r].seeded])
After(r, n) == [rng[r] EXCEPT !.state = Last(Stream(npgen, rng[r].state, n))]

\* ad_spend = np.random.uniform(10, 100, 80)
AdSpend ==
    /\ At("ad_spend") # {}
    /\ py' = Step("ad_spend", py,
                  LAMBDA r : [py[r] EXCEPT !.ad_spend =
                                 LET st == Stream(npgen, rng[r].state, NScatter)
                                 IN [i \in 1..NScatter |-> Uniform(10, 100, st[i])]])
    /\ rng' = Step("ad_spend", rng, LAMBDA r : After(r, NScatter))
    /\ drawLog' = Step("ad_spend", drawLog, LAMBDA r : Logged(r, "ad_spend"))
    /\ writes' = Step("ad_spend", writes, LAMBDA r : Assign(r, {"ad_spend"}))
    /\ pc' = Step("ad_spend", pc, LAMBDA r : NextPc("ad_spend"))
    /\ UNCHANGED <<npgen, fontOnDisk, reads, rc, fig, draw, out>>

\* sales = ad_spend * 2.5 + np.random.normal(0, 20, 80)   (hundredths)
Sales ==
    /\ At("sales") # {}
    /\ py' = Step("sales", py,
                  LAMBDA r : LET st == Stream(npgen, rng[r].state, NScatter)
                             IN [py[r] EXCEPT !.sales =
                                    [i \in 1..NScatter |->
                                        py[r].ad_spend[i] * 25 + Normal(0, 20, st[i])]])
    /\ rng' = Step("sales", rng, LAMBDA r : After(r, NScatter))
    /\ drawLog' = Step("sales", drawLog, LAMBDA r : Logged(r, "sales"))
    /\ writes' = Step("sales", writes, LAMBDA r : Assign(r, {"sales"}))
    /\ reads' = Step("sales", reads, LAMBDA r : ReadAt(r, "sales"))
    /\ pc' = Step("sales", pc, LAMBDA r : NextPc("sales"))
    /\ UNCHANGED <<npgen, fontOnDisk, rc, fig, draw, out>>

\* categories = np.random.choice([...three names...], 80)
Categories ==
    /\ At("categories") # {}
    /\ py' = Step("categories", py,
                  LAMBDA r : [py[r] EXCEPT !.categories =
                                 LET st == Stream(npgen, rng[r].state, NScatter)
                                 IN [i \in 1..NScatter |-> Choice(choice_list, st[i])]])
    /\ rng' = Step("categories", rng, LAMBDA r : After(r, NScatter))
    /\ drawLog' = Step("categories", drawLog, LAMBDA r : Logged(r, "categories"))
    /\ writes' = Step("categories", writes, LAMBDA r : Assign(r, {"categories"}))
    /\ pc' = Step("categories", pc, LAMBDA r : NextPc("categories"))
    /\ UNCHANGED <<npgen, fontOnDisk, reads, rc, fig, draw, out>>

\* market_labels, market_sizes
Market ==
    /\ At("market") # {}
    /\ py' = Step("market", py,
                  LAMBDA r : [py[r] EXCEPT !.market_labels = market_labels_lit,
                                           !.market_sizes = market_sizes_lit])
    /\ writes' = Step("market", writes,
                      LAMBDA r : Assign(r, {"market_labels", "market_sizes"}))
    /\ pc' = Step("market", pc, LAMBDA r : NextPc("market"))
    /\ UNCHANGED <<npgen, fontOnDisk, rng, drawLog, reads, rc, fig, draw, out>>

\* corr_labels, corr_data
Corr ==
    /\ At("corr") # {}
    /\ py' = Step("corr", py,
                  LAMBDA r : [py[r] EXCEPT !.corr_labels = corr_labels_lit,
                                           !.corr_data = corr_data_lit])
    /\ writes' = Step("corr", writes, LAMBDA r : Assign(r, {"corr_labels", "corr_data"}))
    /\ pc' = Step("corr", pc, LAMBDA r : NextPc("corr"))
    /\ UNCHANGED <<npgen, fontOnDisk, rng, drawLog, reads, rc, fig, draw, out>>

\* zip(cities, bases, spreads) stops at the shortest of the three
ZipLen == Min(Len(cities_lit), Min(Len(city_base), Len(city_spread)))

\* the dict comprehension from city i on, the generator standing at state s:
\* the <<city, samples>> items in insertion order, the log and the final state
RECURSIVE HouseFrom(_, _, _, _)
HouseFrom(g, s, seeded, i) ==
    IF i > ZipLen THEN [items |-> <<>>, log |-> <<>>, state |-> s]
    ELSE LET st == Stream(g, s, NHouse)
             rest == HouseFrom(g, Last(st), seeded, i + 1)
         IN [items |-> << <<cities_lit[i],
                            [k \in 1..NHouse |-> Normal(city_base[i], city_spread[i], st[k])]>> >>
                       \o rest.items,
             log |-> <<[what |-> cities_lit[i], seeded |-> seeded]>> \o rest.log,
             state |-> rest.state]

\* cities = [...]; house_prices = {city: np.random.normal(base, spread, 200) ...}
HousePrices ==
    /\ At("house_prices") # {}
    /\ py' = Step("house_prices", py,
                  LAMBDA r : [py[r] EXCEPT
                                 !.cities = cities_lit,
                                 !.house_prices =
                                     HouseFrom(npgen, rng[r].state, rng[r].seeded, 1).items])
    /\ rng' = Step("house_prices", rng,
                   LAMBDA r : [rng[r] EXCEPT !.state =
                                  HouseFrom(npgen, rng[r].state, rng[r].seeded, 1).state])
    /\ drawLog' = Step("house_prices", drawLog,
                       LAMBDA r : drawLog[r] \o
                                  HouseFrom(npgen, rng[r].state, rng[r].seeded, 1).log)
    /\ writes' = Step("house_prices", writes, LAMBDA r : Assign(r, {"cities", "house_prices"}))
    /\ reads' = Step("house_prices", reads, LAMBDA r : ReadAt(r, "house_prices"))
    /\ pc' = Step("house_prices", pc, LAMBDA r : NextPc("house_prices"))
    /\ UNCHANGED <<npgen, fontOnDisk, rc, fig, draw, out>>

----------------------------------------------------------------------------
(* Canvas, lines 103-108 *)

\* fig = plt.figure(figsize=(22, 15)); fig.suptitle(...)
Figure ==
    /\ At("figure") # {}
    /\ fig' = Step("figure", fig,
                   LAMBDA r : [fig[r] EXCEPT !.created = TRUE,
                                             !.suptitle = "Data Visualization Dashboard"])
    /\ pc' = Step("figure", pc, LAMBDA r : NextPc("figure"))
    /\ UNCHANGED <<npgen, fontOnDisk, rng, drawLog, py, writes, reads, rc, draw, out>>

\* gs = gridspec.GridSpec(2, 3, ...)
GridSpec ==
    /\ At("gridspec") # {}
    /\ fig' = Step("gridspec", fig, LAMBDA r : [fig[r] EXCEPT !.gs = <<GridRows, GridCols>>])
    /\ pc' = Step("gridspec", pc, LAMBDA r : NextPc("gridspec"))
    /\ UNCHANGED <<npgen, fontOnDisk, rng, drawLog, py, writes, reads, rc, draw, out>>

\* ax5 pasted into ax4's cell
CellOf_dup(ax) ==
    CASE ax = "ax1" -> <<0, 0>>
      [] ax = "ax2" -> <<0, 1>>
      [] ax = "ax3" -> <<0, 2>>
      [] ax = "ax4" -> <<1, 0>>
      [] ax = "ax5" -> <<1, 0>>
      [] ax = "ax6" -> <<1, 2>>

\* the gs[row, col] each add_subplot call is given (0-based, as in the script)
CellOf(ax) ==
    CASE ax = "ax1" -> <<0, 0>>
      [] ax = "ax2" -> <<0, 1>>
      [] ax = "ax3" -> <<0, 2>>
      [] ax = "ax4" -> <<1, 0>>
      [] ax = "ax5" -> <<1, 1>>
      [] ax = "ax6" -> <<1, 2>>

\* gs[row, col] exists; otherwise indexing the GridSpec is an IndexError
InGrid(r, cell) == cell[1] < fig[r].gs[1] /\ cell[2] < fig[r].gs[2]

\* axN = fig.add_subplot(gs[row, col])
AddSubplot(L, ax) ==
    /\ At(L) # {}
    /\ fig' = Step(L, fig,
                   LAMBDA r : IF InGrid(r, CellOf(ax))
                              THEN [fig[r] EXCEPT !.axes = @ \cup
                                      {[ax |-> ax, row |-> CellOf(ax)[1],
                                        col |-> CellOf(ax)[2], kind |-> "panel"]}]
                              ELSE fig[r])
    /\ out' = Step(L, out, LAMBDA r : IF InGrid(r, CellOf(ax)) THEN out[r]
                                      ELSE Raise(r, "IndexError"))
    /\ pc' = Step(L, pc, LAMBDA r : IF InGrid(r, CellOf(ax)) THEN NextPc(L) ELSE "failed")
    /\ UNCHANGED <<npgen, fontOnDisk, rng, drawLog, py, writes, reads, rc, draw>>

\* COLORS[i] with Python's 0-based index
Color(i) == COLORS[i + 1]

\* set_title / set_ylabel / legend / tick_params of one panel
Decor(r, ax, title, legend) ==
    [draw[r] EXCEPT !.titles = Append(@, [ax |-> ax, title |-> title, legend |-> legend])]

----------------------------------------------------------------------------
(* 1) line panel, lines 113-125 *)

Ax1Add == AddSubplot("ax1_add", "ax1")

\* the ax1.plot calls
Ax1PlotCalls ==
    <<[fn |-> "plot", x |-> "months", y |-> "product_a", marker |-> "o", color |-> Color(0)],
      [fn |-> "plot", x |-> "months", y |-> "product_b", marker |-> "s", color |-> Color(1)],
      [fn |-> "plot", x |-> "months", y |-> "product_c", marker |-> "^", color |-> Color(2)]>>

\* the ax1.fill_between calls
Ax1FillCalls ==
    <<[fn |-> "fill_between", x |-> "months", y |-> "product_a", marker |-> "",
       color |-> Color(0)],
      [fn |-> "fill_between", x |-> "months", y |-> "product_b", marker |-> "",
       color |-> Color(1)]>>

\* x and y must have the same first dimension, otherwise matplotlib raises
SameLen(r, calls) == \A i \in 1..Len(calls) : Len(py[r][calls[i].x]) = Len(py[r][calls[i].y])

Drawn(r, calls) == [i \in 1..Len(calls) |->
                      [fn |-> calls[i].fn, series |-> calls[i].y, marker |-> calls[i].marker,
                       color |-> calls[i].color, n |-> Len(py[r][calls[i].y])]]

LineCalls(L, calls) ==
    /\ At(L) # {}
    /\ draw' = Step(L, draw,
                    LAMBDA r : IF SameLen(r, calls)
                               THEN [draw[r] EXCEPT !.line = @ \o Drawn(r, calls)]
                               ELSE draw[r])
    /\ reads' = Step(L, reads, LAMBDA r : ReadAt(r, L))
    /\ out' = Step(L, out, LAMBDA r : IF SameLen(r, calls) THEN out[r]
                                      ELSE Raise(r, "ValueError"))
    /\ pc' = Step(L, pc, LAMBDA r : IF SameLen(r, calls) THEN NextPc(L) ELSE "failed")
    /\ UNCHANGED <<npgen, fontOnDisk, rng, drawLog, py, writes, rc, fig>>

Ax1Plot == LineCalls("ax1_plot", Ax1PlotCalls)

Ax1Fill == LineCalls("ax1_fill", Ax1FillCalls)

DecorStep(L, ax, title, legend) ==
    /\ At(L) # {}
    /\ draw' = Step(L, draw, LAMBDA r : Decor(r, ax, title, legend))
    /\ reads' = Step(L, reads, LAMBDA r : ReadAt(r, L))
    /\ pc' = Step(L, pc, LAMBDA r : NextPc(L))
    /\ UNCHANGED <<npgen, fontOnDisk, rng, drawLog, py, writes, rc, fig, out>>

Ax1Decor == DecorStep("ax1_decor", "ax1", "Monthly sales trend", "upper left")

----------------------------------------------------------------------------
(* 2) grouped bar panel, lines 130-141 *)

Ax2Add == AddSubplot("ax2_add", "ax2")

\* the four ax2.bar calls: heights, offset from x in hundredths (w = 0.20), colour
Ax2BarCalls ==
    <<[heights |-> "q1", label |-> "Q1", offset |-> -30, color |-> Color(0)],
      [heights |-> "q2", label |-> "Q2", offset |-> -10, color |-> Color(1)],
      [heights |-> "q3", label |-> "Q3", offset |-> 10, color |-> Color(2)],
      [heights |-> "q4", label |-> "Q4", offset |-> 30, color |-> Color(3)]>>

\* x = np.arange(len(departments)); the heights must broadcast against x
BarsFit(r) == \A i \in 1..Len(Ax2BarCalls) :
                 Len(py[r][Ax2BarCalls[i].heights]) = Len(py[r].departments)

Ax2Bar ==
    /\ At("ax2_bar") # {}
    /\ draw' = Step("ax2_bar", draw,
                    LAMBDA r : IF BarsFit(r)
                               THEN [draw[r] EXCEPT !.bars =
                                       [i \in 1..Len(Ax2BarCalls) |->
                                          [label |-> Ax2BarCalls[i].label,
                                           color |-> Ax2BarCalls[i].color,
                                           offset |-> Ax2BarCalls[i].offset,
                                           heights |-> py[r][Ax2BarCalls[i].heights]]]]
                               ELSE draw[r])
    /\ reads' = Step("ax2_bar", reads, LAMBDA r : ReadAt(r, "ax2_bar"))
    /\ out' = Step("ax2_bar", out, LAMBDA r : IF BarsFit(r) THEN out[r]
                                              ELSE Raise(r, "ValueError"))
    /\ pc' = Step("ax2_bar", pc, LAMBDA r : IF BarsFit(r) THEN NextPc("ax2_bar") ELSE "failed")
    /\ UNCHANGED <<npgen, fontOnDisk, rng, drawLog, py, writes, rc, fig>>

Ax2Decor == DecorStep("ax2_decor", "ax2", "Quarterly revenue by department", "upper right")

----------------------------------------------------------------------------
(* 3) scatter panel, lines 146-159 *)

Ax3Add == AddSubplot("ax3_add", "ax3")

\* mask = categories == cat
Mask(r, cat) == {k \in 1..Len(py[r].categories) : py[r].categories[k] = cat}

\* for i, cat in enumerate([...]): ax3.scatter(ad_spend[mask], sales[mask], c=COLORS[i])
Ax3Scatter ==
    /\ At("ax3_scatter") # {}
    /\ draw' = Step("ax3_scatter", draw,
                    LAMBDA r : [draw[r] EXCEPT !.scatter =
                                  [i \in 1..Len(loop_list) |->
                                     [label |-> loop_list[i], color |-> Color(i - 1),
                                      points |-> Mask(r, loop_list[i])]]])
    /\ reads' = Step("ax3_scatter", reads, LAMBDA r : ReadAt(r, "ax3_scatter"))
    /\ pc' = Step("ax3_scatter", pc, LAMBDA r : NextPc("ax3_scatter"))
    /\ UNCHANGED <<npgen, fontOnDisk, rng, drawLog, py, writes, rc, fig, out>>

SeqMin(seq) == CHOOSE v \in {seq[i] : i \in 1..Len(seq)} :
                  \A j \in 1..Len(seq) : v <= seq[j]
SeqMax(seq) == CHOOSE v \in {seq[i] : i \in 1..Len(seq)} :
                  \A j \in 1..Len(seq) : v >= seq[j]

\* z = np.polyfit(ad_spend, sales, 1) over the whole sample; the dashed line spans
\* ad_spend.min() .. ad_spend.max().  The fitted coefficients are not represented.
Ax3Trend ==
    /\ At("ax3_trend") # {}
    /\ draw' = Step("ax3_trend", draw,
                    LAMBDA r : [draw[r] EXCEPT !.trend =
                                  <<[deg |-> 1, fitted |-> Len(py[r].ad_spend),
                                     xmin |-> SeqMin(py[r].ad_spend),
                                     xmax |-> SeqMax(py[r].ad_spend),
                                     style |-> "--"]>>])
    /\ reads' = Step("ax3_trend", reads, LAMBDA r : ReadAt(r, "ax3_trend"))
    /\ pc' = Step("ax3_trend", pc, LAMBDA r : NextPc("ax3_trend"))
    /\ UNCHANGED <<npgen, fontOnDisk, rng, drawLog, py, writes, rc, fig, out>>

Ax3Decor == DecorStep("ax3_decor", "ax3", "Ad spend vs sales", "best")

----------------------------------------------------------------------------
(* 4) pie panel, lines 164-175 *)

Ax4Add == AddSubplot("ax4_add", "ax4")

explode == <<5, 5, 5, 5, 5>>

RECURSIVE SeqSum(_)
SeqSum(seq) == IF seq = <<>> THEN 0 ELSE seq[1] + SeqSum(Tail(seq))

\* autopct "%1.1f%%" of 100 * x / total: tenths of a percent, rounded to nearest,
\* a tie to the even digit
Pct(x, total) ==
    LET q == (1000 * x) \div total
        rem == (1000 * x) % total
    IN IF 2 * rem > total THEN q + 1
       ELSE IF 2 * rem = total THEN q + (q % 2)
       ELSE q

\* pie() needs one label and one explode entry per value
PieFits(r) == /\ Len(py[r].market_labels) = Len(py[r].market_sizes)
              /\ Len(explode) = Len(py[r].market_sizes)

\* one wedge per value, the colours COLORS[:5] cycled
Wedges(sizes, labels) ==
    [i \in 1..Len(sizes) |->
        [label |-> labels[i], value |-> sizes[i],
         pct |-> Pct(sizes[i], SeqSum(sizes)),
         color |-> Color((i - 1) % 5), explode |-> explode[i]]]

\* wedges, texts, autotexts = ax4.pie(market_sizes, labels=market_labels, ...)
Ax4Pie ==
    /\ At("ax4_pie") # {}
    /\ draw' = Step("ax4_pie", draw,
                    LAMBDA r : IF PieFits(r)
                               THEN [draw[r] EXCEPT !.pie =
                                       Wedges(py[r].market_sizes, py[r].market_labels)]
                               ELSE draw[r])
    /\ reads' = Step("ax4_pie", reads, LAMBDA r : ReadAt(r, "ax4_pie"))
    /\ out' = Step("ax4_pie", out, LAMBDA r : IF PieFits(r) THEN out[r]
                                              ELSE Raise(r, "ValueError"))
    /\ pc' = Step("ax4_pie", pc, LAMBDA r : IF PieFits(r) THEN NextPc("ax4_pie") ELSE "failed")
    /\ UNCHANGED <<npgen, fontOnDisk, rng, drawLog, py, writes, rc, fig>>

Ax4Decor == DecorStep("ax4_decor", "ax4", "Market share", "")

----------------------------------------------------------------------------
(* 5) heatmap panel, lines 180-189 *)

Ax5Add == AddSubplot("ax5_add", "ax5")

\* vmin=-1, vmax=1, in hundredths
heat_vmin == -100
heat_vmax == 100

\* sns.heatmap(corr_data, annot=True, fmt=".2f", vmin=-1, vmax=1, ax=ax5): the mesh,
\* and a colorbar axes that shares ax5's grid cell
Ax5Heatmap ==
    /\ At("ax5_heatmap") # {}
    /\ draw' = Step("ax5_heatmap", draw,
                    LAMBDA r : [draw[r] EXCEPT !.heat =
                                  <<[cells |-> py[r].corr_data,
                                     xticklabels |-> py[r].corr_labels,
                                     yticklabels |-> py[r].corr_labels,
                                     vmin |-> heat_vmin, vmax |-> heat_vmax]>>])
    /\ fig' = Step("ax5_heatmap", fig,
                   LAMBDA r : [fig[r] EXCEPT !.axes = @ \cup
                                 {[ax |-> "ax5_cbar", row |-> a.row, col |-> a.col,
                                   kind |-> "colorbar"] : a \in {b \in @ : b.ax = "ax5"}}])
    /\ reads' = Step("ax5_heatmap", reads, LAMBDA r : ReadAt(r, "ax5_heatmap"))
    /\ pc' = Step("ax5_heatmap", pc, LAMBDA r : NextPc("ax5_heatmap"))
    /\ UNCHANGED <<npgen, fontOnDisk, rng, drawLog, py, writes, rc, out>>

Ax5Decor == DecorStep("ax5_decor", "ax5", "Correlation of business metrics", "")

----------------------------------------------------------------------------
(* 6) box plot panel, lines 194-208 *)

Ax6Add == AddSubplot("ax6_add", "ax6")

\* house_prices[c]: the samples stored under key c
HasKey(dict, c) == \E i \in 1..Len(dict) : dict[i][1] = c
Lookup(dict, c) == dict[CHOOSE i \in 1..Len(dict) : dict[i][1] = c][2]

\* bp_data = [house_prices[c] for c in cities] is a KeyError on a missing city
BoxFits(r) == \A i \in 1..Len(py[r].cities) : HasKey(py[r].house_prices, py[r].cities[i])

\* ax6.boxplot(bp_data, tick_labels=cities, notch=True, ...) and the loop
\* over zip(bp["boxes"], COLORS[:5]) that colours the boxes
Ax6Boxplot ==
    /\ At("ax6_boxplot") # {}
    /\ draw' = Step("ax6_boxplot", draw,
                    LAMBDA r : IF BoxFits(r)
                               THEN [draw[r] EXCEPT !.box =
                                       [i \in 1..Min(Len(py[r].cities), 5) |->
                                          [label |-> py[r].cities[i],
                                           n |-> Len(Lookup(py[r].house_prices,
                                                            py[r].cities[i])),
                                           color |-> Color(i - 1), notch |-> TRUE]]]
                               ELSE draw[r])
    /\ reads' = Step("ax6_boxplot", reads, LAMBDA r : ReadAt(r, "ax6_boxplot"))
    /\ out' = Step("ax6_boxplot", out, LAMBDA r : IF BoxFits(r) THEN out[r]
                                                  ELSE Raise(r, "KeyError"))
    /\ pc' = Step("ax6_boxplot", pc,
                  LAMBDA r : IF BoxFits(r) THEN NextPc("ax6_boxplot") ELSE "failed")
    /\ UNCHANGED <<npgen, fontOnDisk, rng, drawLog, py, writes, rc, fig>>

Ax6Decor == DecorStep("ax6_decor", "ax6", "House prices by city", "")

----------------------------------------------------------------------------
(* Export, lines 211-216 *)

\* the write error swallowed: the script carries on
AfterSave_swallow(ok) == NextPc("savefig")

\* where control goes after fig.savefig: there is no try/except around it
AfterSave(ok) == IF ok THEN NextPc("savefig") ELSE "failed"

\* fig.savefig(output_path, dpi=150, ...): the write succeeds or raises OSError
Savefig ==
    /\ At("savefig") # {}
    /\ \E ok \in [Runs -> BOOLEAN] :
          /\ out' = Step("savefig", out,
                         LAMBDA r : IF ok[r]
                                    THEN [out[r] EXCEPT !.files = Append(@, output_path)]
                                    ELSE Raise(r, "OSError"))
          /\ pc' = Step("savefig", pc, LAMBDA r : AfterSave(ok[r]))
    /\ UNCHANGED <<npgen, fontOnDisk, rng, drawLog, py, writes, reads, rc, fig, draw>>

\* plt.close(fig)
Close ==
    /\ At("close") # {}
    /\ fig' = Step("close", fig, LAMBDA r : [fig[r] EXCEPT !.closed = TRUE])
    /\ pc' = Step("close", pc, LAMBDA r : NextPc("close"))
    /\ UNCHANGED <<npgen, fontOnDisk, rng, drawLog, py, writes, reads, rc, draw, out>>

PrintLine(L, text) ==
    /\ At(L) # {}
    /\ out' = Step(L, out, LAMBDA r : [out[r] EXCEPT !.stdout = Append(@, text)])
    /\ pc' = Step(L, pc, LAMBDA r : NextPc(L))
    /\ UNCHANGED <<npgen, fontOnDisk, rng, drawLog, py, writes, reads, rc, fig, draw>>

\* print(f"... saved to: {output_path}")
Print1 == PrintLine("print1", "dashboard saved to: " \o output_path)

\* print(f"size: 22x15 inches, DPI: 150")
Print2 == PrintLine("print2", "image size: 22x15 inches, DPI: 150")

----------------------------------------------------------------------------
Next == SetTheme \/ RegisterFont \/ RcParamsUpdate \/ Seed \/ Monthly \/ Quarterly
        \/ AdSpend \/ Sales \/ Categories \/ Market \/ Corr \/ HousePrices
        \/ Figure \/ GridSpec
        \/ Ax1Add \/ Ax1Plot \/ Ax1Fill \/ Ax1Decor
        \/ Ax2Add \/ Ax2Bar \/ Ax2Decor
        \/ Ax3Add \/ Ax3Scatter \/ Ax3Trend \/ Ax3Decor
        \/ Ax4Add \/ Ax4Pie \/ Ax4Decor
        \/ Ax5Add \/ Ax5Heatmap \/ Ax5Decor
        \/ Ax6Add \/ Ax6Boxplot \/ Ax6Decor
        \/ Savefig \/ Close \/ Print1 \/ Print2

Spec == Init /\ [][Next]_vars

----------------------------------------------------------------------------
(* Properties *)

\* copy r has executed the statement at L (and has not died of an exception)
Past(r, L) == pc[r] = "done" \/ (pc[r] # "failed" /\ PosOf(pc[r]) > PosOf(L))

Finished(r) == pc[r] = "done"

PlotOps(r) == {i \in 1..Len(draw[r].line) : draw[r].line[i].fn = "plot"}
FillOps(r) == {i \in 1..Len(draw[r].line) : draw[r].line[i].fn = "fill_between"}

\* C1: once the line panel is drawn, every series plotted as a line has a
\* fill_between call for the same series in the same colour.
C1_EverySeriesFilled ==
    \A r \in Runs :
        Past(r, "ax1_fill") =>
            \A i \in PlotOps(r) : \E j \in FillOps(r) :
                /\ draw[r].line[j].series = draw[r].line[i].series
                /\ draw[r].line[j].color = draw[r].line[i].color

PanelAxes(r) == {a \in fig[r].axes : a.kind = "panel"}

AllCells == (0..(GridRows - 1)) \X (0..(GridCols - 1))

C2_Cells(r) ==
    /\ \A a, b \in PanelAxes(r) : a.ax = b.ax => a = b
    /\ \A a, b \in PanelAxes(r) : (a.row = b.row /\ a.col = b.col) => a.ax = b.ax
    /\ \A a \in PanelAxes(r) : <<a.row, a.col>> \in AllCells
    /\ \A ax \in Panels : Past(r, ax \o "_add") => \E a \in PanelAxes(r) : a.ax = ax
    /\ Finished(r) => {<<a.row, a.col>> : a \in PanelAxes(r)} = AllCells

C2_Kept(r) == \A a \in PanelAxes(r) : a \in fig'[r].axes

Datasets(r) == [n \in DataNames |-> py[r][n]]

\* the order of the random draws
DrawOrder == <<"ad_spend", "sales", "categories">> \o cities_lit

\* C3: every random draw happens after the generator was seeded, the draws occur
\* in the fixed order, and any two copies of the run hold equal datasets at every
\* step, whatever their environments.
C3_Deterministic ==
    /\ \A r \in Runs :
          /\ Len(drawLog[r]) <= Len(DrawOrder)
          /\ \A i \in 1..Len(drawLog[r]) :
                drawLog[r][i].seeded /\ drawLog[r][i].what = DrawOrder[i]
          /\ Past(r, "house_prices") => Len(drawLog[r]) = Len(DrawOrder)
    /\ \A r1, r2 \in Runs : Datasets(r1) = Datasets(r2)

C3_Witness ==
    \E r1, r2 \in Runs :
        /\ fontOnDisk[r1] # fontOnDisk[r2]
        /\ Finished(r1) /\ out[r2].error = "OSError"
        /\ Len(drawLog[r1]) = 8 /\ Len(py[r2].house_prices) = 5

\* C4: the three monthly series have 12 values each, co-indexed with the 12 month
\* labels (and are plotted so); the quarterly table is 4 lists of 5 values, one per
\* department.
C4_Shapes ==
    \A r \in Runs :
        /\ Past(r, "monthly") =>
              /\ Len(py[r].months) = 12
              /\ \A n \in {"product_a", "product_b", "product_c"} :
                    Len(py[r][n]) = 12 /\ DOMAIN py[r][n] = DOMAIN py[r].months
        /\ Past(r, "quarterly") =>
              /\ Len(py[r].departments) = 5
              /\ \A n \in {"q1", "q2", "q3", "q4"} :
                    Len(py[r][n]) = 5 /\ DOMAIN py[r][n] = DOMAIN py[r].departments
        /\ Past(r, "ax1_plot") => \A i \in PlotOps(r) : draw[r].line[i].n = 12
        /\ Past(r, "ax2_bar") =>
              /\ Len(draw[r].bars) = 4
              /\ \A i \in 1..4 : Len(draw[r].bars[i].heights) = 5

C4_Witness ==
    \E r \in Runs : Past(r, "ax2_bar") /\ Cardinality(PlotOps(r)) = 3
                    /\ Len(draw[r].bars) = 4

\* C5: the correlation matrix is 6 by 6, one row and column per label, symmetric,
\* with diagonal 1.00 and entries in [-1, 1], the range the heatmap's colour scale
\* is fixed to.
C5_CorrMatrix ==
    \A r \in Runs :
        /\ Past(r, "corr") =>
              LET m == py[r].corr_data IN
              /\ Len(m) = 6 /\ Len(py[r].corr_labels) = 6
              /\ \A i \in 1..6 : Len(m[i]) = 6 /\ m[i][i] = 100
              /\ \A i, j \in 1..6 : m[i][j] = m[j][i] /\ m[i][j] >= -100 /\ m[i][j] <= 100
        /\ Past(r, "ax5_heatmap") =>
              /\ Len(draw[r].heat) = 1
              /\ draw[r].heat[1].vmin = -100 /\ draw[r].heat[1].vmax = 100
              /\ \A i, j \in 1..6 :
                    /\ draw[r].heat[1].cells[i][j] >= draw[r].heat[1].vmin
                    /\ draw[r].heat[1].cells[i][j] <= draw[r].heat[1].vmax

C5_Witness ==
    \E r \in Runs : Past(r, "ax5_heatmap") /\ Len(draw[r].heat) = 1
                    /\ draw[r].heat[1].cells[6][1] = -30

Allowed == {choice_list[i] : i \in 1..Len(choice_list)}

\* the scatter calls that draw observation k
DrawnBy(r, k) == {i \in 1..Len(draw[r].scatter) : k \in draw[r].scatter[i].points}

\* C6: each of the 80 observations is labelled with one of the 3 allowed names,
\* the scatter loop iterates over the same 3 names, and every observation is
\* drawn by exactly one of the three scatter calls.
C6_ScatterPartition ==
    \A r \in Runs :
        /\ Past(r, "categories") =>
              /\ Len(py[r].categories) = 80 /\ Cardinality(Allowed) = 3
              /\ Len(py[r].ad_spend) = 80 /\ Len(py[r].sales) = 80
              /\ \A k \in 1..80 : py[r].categories[k] \in Allowed
        /\ Past(r, "ax3_scatter") =>
              /\ Len(draw[r].scatter) = 3
              /\ {draw[r].scatter[i].label : i \in 1..Len(draw[r].scatter)} = Allowed
              /\ \A k \in 1..80 : Cardinality(DrawnBy(r, k)) = 1

C6_Witness ==
    \E r \in Runs : Past(r, "ax3_scatter") /\ Len(draw[r].scatter) = 3
                    /\ \A i \in 1..3 : draw[r].scatter[i].points # {}

\* C7: the pie step yields 5 wedges, one per market-share label, whose percentage
\* annotations (value / total, one decimal) add up to 100.0%.
C7_PiePercentages ==
    \A r \in Runs :
        Past(r, "ax4_pie") =>
            /\ Len(draw[r].pie) = 5
            /\ Len(py[r].market_labels) = 5
            /\ \A i \in 1..5 : draw[r].pie[i].label = py[r].market_labels[i]
            /\ SeqSum([i \in 1..Len(draw[r].pie) |-> draw[r].pie[i].pct]) = 1000

C7_Witness ==
    \E r \in Runs : Past(r, "ax4_pie") /\ Len(draw[r].pie) = 5
                    /\ draw[r].pie[1].pct = 350 /\ draw[r].pie[5].pct = 80

\* C8: completion lines appear only after the one write of the image to the
\* fixed path succeeded; a finished run wrote exactly once and printed exactly two
\* lines; a run whose write fails dies of the uncaught error with nothing printed.
C8_PrintAfterWrite ==
    \A r \in Runs :
        /\ Len(out[r].files) <= 1
        /\ \A i \in 1..Len(out[r].files) : out[r].files[i] = output_path
        /\ out[r].stdout # <<>> => Len(out[r].files) = 1 /\ out[r].error = ""
        /\ Len(out[r].stdout) <= 2
        /\ Finished(r) => Len(out[r].files) = 1 /\ Len(out[r].stdout) = 2
                          /\ out[r].error = ""
        /\ out[r].error = "OSError" =>
              pc[r] = "failed" /\ out[r].files = <<>> /\ out[r].stdout = <<>>
        /\ Past(r, "savefig") => out[r].error = ""

C8_Witness ==
    \E r1, r2 \in Runs :
        /\ Finished(r1) /\ Len(out[r1].stdout) = 2 /\ Len(out[r1].files) = 1
        /\ pc[r2] = "failed" /\ out[r2].error = "OSError"

\* C9: with the font file present or absent the font step raises nothing and the
\* run goes on; present: the file is registered and its family chosen; absent:
\* the generic family is chosen; a family is bound before rcParams reads it.
C9_FontFallback ==
    \A r \in Runs :
        /\ out[r].error # "NameError"
        /\ pc[r] = "failed" => out[r].error = "OSError"
        /\ Past(r, "font") =>
              /\ Defined(r, "chinese_font")
              /\ fontOnDisk[r] => /\ font_path \in rc[r].fonts
                                  /\ py[r].chinese_font = "WenQuanYi Micro Hei"
              /\ ~fontOnDisk[r] => /\ rc[r].fonts = {}
                                   /\ py[r].chinese_font = "sans-serif"
        /\ Past(r, "rcparams") =>
              /\ Len(rc[r].font_sans) = 3
              /\ rc[r].font_sans[1] = py[r].chinese_font

C9_Witness ==
    \E r1, r2 \in Runs :
        /\ fontOnDisk[r1] /\ ~fontOnDisk[r2]
        /\ Finished(r1) /\ Finished(r2)
        /\ rc[r1].font_sans[1] = "WenQuanYi Micro Hei" /\ rc[r2].font_sans[1] = "sans-serif"

C10_Once(r) ==
    \A n \in DataNames :
        /\ writes[r][n] <= 1
        /\ Past(r, "house_prices") => writes[r][n] = 1
        /\ Cardinality(reads[r][n] \cap Panels) <= 1
        /\ Finished(r) => Cardinality(reads[r][n] \cap Panels) = 1

C10_Frozen(r) == \A n \in DataNames : Defined(r, n) => py'[r][n] = py[r][n]

\* C10: every dataset is bound exactly once, during data generation, and keeps
\* its value for the rest of the run; every dataset is read by exactly one panel
\* renderer.
C10_WriteOnceReadByOne ==
    /\ [](\A r \in Runs : C10_Once(r))
    /\ [][\A r \in Runs : C10_Frozen(r)]_vars

C10_Witness ==
    \E r \in Runs : /\ Finished(r)
                    /\ reads[r]["cities"] = {"gen", "ax6"}
                    /\ reads[r]["ad_spend"] = {"gen", "ax3"}
                    /\ \A n \in DataNames : writes[r][n] = 1

====
